---- MODULE Spec2Model ----
(***************************************************************************)
(* Model of brave/core/api/model.py: the Ban document with its embedded    *)
(* CharacterBan and IPBan entries and their enable/disable methods, and    *)
(* the AuthenticationRequest document with its expiry index.               *)
(*                                                                         *)
(* A call of enable/disable is modelled statement by statement: the test   *)
(* of the flag, the log.info call and the assignment of the flag are       *)
(* separate steps, so that the states between them and the interleavings   *)
(* of two requests working on the same Ban object are visible.             *)
(***************************************************************************)
EXTENDS Integers, Sequences, FiniteSets, TLC

\* ------------------------------------------------------------------ bounds
MaxChildren == 2        \* longest characters / IPs list
MaxCalls == 2           \* calls started in one behaviour, one request at a time
MaxConcChildren == 1    \* longest characters / IPs list under concurrent requests
MaxConcCalls == 2       \* calls started in one behaviour of concurrent requests
NumThreads == 2         \* requests that may run concurrently
MaxRequests == 1        \* AuthenticationRequest documents created in one behaviour
MaxTicks == 3           \* clock advances in one behaviour
MaxEntries == 1         \* longest characters / IPs list of a Ban handed to save()
MaxStored == 1          \* Ban documents in the collection
MaxBlacklist == 1       \* AuthenticationBlacklist documents in the collection

Threads == 1..NumThreads

\* ------------------------------------------------------------------ state
VARIABLES
    ban_enabled,    \* Ban._enabled
    characters,     \* Ban.characters: sequence of CharacterBan._enabled
    IPs,            \* Ban.IPs: sequence of IPBan._enabled
    log,            \* records handed to log.info, oldest first
    embeddedId,     \* does self.id resolve on an EmbeddedDocument
    call,           \* per thread: the enable/disable call it is executing
    calls,          \* number of calls started
    changes,        \* history: per flag, number of writes that changed it
    prev,           \* history: operation and target of the last returned call
    now,            \* datetime.utcnow(), in seconds
    ticks,          \* number of times the clock has advanced
    requests,       \* the AuthenticationRequest collection: id -> document
    issued,         \* history: expires of every document ever created, by id
    found,          \* history: the last lookup and what it returned
    createdAt,      \* history: creation time of every document, by id
    consumed,       \* history: ids of the documents deleted by the handshake
    updated,        \* history: the last attempt to attach user or grant
    attrs,          \* the fields of the Ban and of its entries other than _enabled
    other,          \* the _enabled flags of another Ban document and its entries
    stored,         \* the Ban collection: the documents saved
    saved,          \* history: the last document handed to save() and the outcome
    blacklist,      \* the AuthenticationBlacklist collection
    checked         \* history: the last endpoint tested and the verdict

banVars == <<ban_enabled, characters, IPs, log, embeddedId, call, calls, changes,
             prev, attrs, other>>

storeVars == <<stored, saved>>

blVars == <<blacklist, checked>>

authVars == <<now, ticks, requests, issued, found, createdAt, consumed, updated>>

vars == <<banVars, authVars, storeVars, blVars>>

\* ---------------------------------------------------------------- objects
\* An object is named by the list it lives in and its position; the Ban
\* document itself is <<"Ban", 0>>.
BanObj == <<"Ban", 0>>

ClassOf(obj) ==
    CASE obj[1] = "Ban" -> "Ban"
      [] obj[1] = "characters" -> "CharacterBan"
      [] obj[1] = "IPs" -> "IPBan"

\* The order in which Ban.enable / Ban.disable visit the children:
\* first every element of self.characters, then every element of self.IPs.
Cascade ==
    [i \in 1..Len(characters) |-> <<"characters", i>>]
        \o [j \in 1..Len(IPs) |-> <<"IPs", j>>]

Objects == {BanObj} \cup {Cascade[k] : k \in 1..Len(Cascade)}

Flag(obj) ==
    CASE obj[1] = "Ban" -> ban_enabled
      [] obj[1] = "characters" -> characters[obj[2]]
      [] obj[1] = "IPs" -> IPs[obj[2]]

Flags == [ban |-> ban_enabled, characters |-> characters, IPs |-> IPs]

\* ------------------------------------------------------- attribute lookup
\* Fields declared by each class.  A Document gets an id from mongoengine;
\* CharacterBan and IPBan declare none, and whether self.id resolves on
\* them is decided by the EmbeddedDocument base class of the installed
\* mongoengine (embeddedId).
DeclaredFields(cls) ==
    CASE cls = "CharacterBan" -> {"character", "date", "reason", "_enabled"}
      [] cls = "IPBan" -> {"host", "date", "reason", "_enabled"}
      [] cls = "Ban" -> {"characters", "IPs", "_enabled", "creator",
                         "charCreator", "reason", "id"}

HasAttr(cls, attr) ==
    \/ attr \in DeclaredFields(cls)
    \/ attr = "id" /\ cls # "Ban" /\ embeddedId

\* The attributes of self that the argument tuple of the log.info call reads.
LogArgs(cls, op) ==
    CASE cls = "Ban" -> <<"id">>
      [] cls = "CharacterBan" /\ op = "enable" -> <<"character", "id">>
      [] cls = "CharacterBan" /\ op = "disable" -> <<"host", "id">>
      [] cls = "IPBan" -> <<"host", "id">>

\* Evaluating the argument tuple raises AttributeError when one of the
\* attributes does not resolve.
LogRaises(cls, op) ==
    \E k \in 1..Len(LogArgs(cls, op)) : ~HasAttr(cls, LogArgs(cls, op)[k])

\* The template each method formats.
Template(cls, op) ==
    CASE cls = "Ban" /\ op = "enable" -> "User %s enabled ban %s."
      [] cls = "Ban" /\ op = "disable" -> "User %s disabled ban %s."
      [] cls = "CharacterBan" /\ op = "enable" ->
            "User %s enabled CharacterBan against %s (%s)."
      [] cls = "CharacterBan" /\ op = "disable" ->
            "User %s disabled ban against %s (%s)."
      [] cls = "IPBan" /\ op = "enable" ->
            "User %s enabled IPban against %s (%s)."
      [] cls = "IPBan" /\ op = "disable" ->
            "User %s disabled ban against %s (%s)."

\* str.format replaces {}-fields only; the templates contain none, so the
\* result is the template whatever the argument tuple holds.
Format(template, args) == template

\* ----------------------------------------------------- the flag protocol
\* The value a method assigns to _enabled.
NewValue(op) == op = "enable"

Guard_NoTest(op, flag) == TRUE

\* The test guarding the log call and the assignment:
\* "if not self._enabled" in enable, "if self._enabled" in disable.
Guard(op, flag) == IF op = "enable" THEN ~flag ELSE flag

\* A thread that is not inside a call.
Idle == [pc |-> "idle", op |-> "none", target |-> BanObj, cur |-> BanObj,
         k |-> 0, outcome |-> "none",
         pre |-> [ban |-> TRUE, characters |-> <<>>, IPs |-> <<>>],
         logStart |-> 0, during |-> {}]

\* The threads that are inside a call.
Running == {u \in Threads : call[u].pc \in {"check", "log", "write"}}

\* Where a call continues when the method running on obj k of the cascade
\* (k = 0: the Ban's own part) has returned without raising.
Continue(c) ==
    IF c.target # BanObj \/ c.k >= Len(Cascade)
      THEN [c EXCEPT !.pc = "done", !.outcome = "ok"]
      ELSE [c EXCEPT !.pc = "check", !.cur = Cascade[c.k + 1], !.k = c.k + 1]

\* ----------------------------------------------------------------- Init
\* The fields the enable/disable methods do not mention: creator,
\* charCreator and reason of the Ban, and character or host, reason and
\* date of each entry, in list order.
EntryFields(n, m) ==
    [creator |-> "U1", charCreator |-> "C1", reason |-> "abuse",
     characters |-> [i \in 1..n |->
                        [character |-> i, reason |-> "direct", date |-> 0]],
     IPs |-> [j \in 1..m |->
                        [host |-> j, reason |-> "account", date |-> 0]]]

\* A second Ban document, with one entry of each kind.
OtherBan == [ban |-> TRUE, characters |-> <<TRUE>>, IPs |-> <<FALSE>>]

\* A Ban as a request finds it: any number of entries, and any values of
\* the flags (each defaults to True and is stored with the document).
FlagSeqs(n) == UNION {[1..m -> BOOLEAN] : m \in 0..n}

InitN(n) ==
    /\ ban_enabled \in BOOLEAN
    /\ characters \in FlagSeqs(n)
    /\ IPs \in FlagSeqs(n)
    /\ log = <<>>
    /\ embeddedId \in BOOLEAN
    /\ call = [t \in Threads |-> Idle]
    /\ calls = 0
    /\ changes = [o \in {BanObj}
                      \cup {<<"characters", i>> : i \in 1..Len(characters)}
                      \cup {<<"IPs", j>> : j \in 1..Len(IPs)} |-> 0]
    /\ prev = [op |-> "none", target |-> BanObj]
    /\ attrs = EntryFields(Len(characters), Len(IPs))
    /\ other = OtherBan

\* ------------------------------------------- AuthenticationRequest: state
\* timedelta(minutes=10), in seconds.
ExpiryMinutes == 10

ExpiryWindow == ExpiryMinutes * 60

DefaultExpires_Seconds(t) == t + ExpiryMinutes

\* The default of the expires field: utcnow() + timedelta(minutes=10).
DefaultExpires(t) == t + ExpiryWindow

\* The steps by which the clock advances: one second, or one second less
\* than the expiry window.
TickSteps == {1, ExpiryWindow - 1}

Applications == {"app"}

NoLookup == [id |-> 0, at |-> 0, status |-> "none", expires |-> 0]

AuthInit ==
    /\ now = 0
    /\ ticks = 0
    /\ requests = << >>
    /\ issued = << >>
    /\ found = NoLookup
    /\ createdAt = << >>
    /\ consumed = {}
    /\ updated = NoLookup

\* ------------------------------------------------------ Ban.save(): state
None == "None"

\* A Ban nobody has filled in.
BlankBan == [creator |-> None, charCreator |-> None, reason |-> None,
             characters |-> << >>, IPs |-> << >>]

NoSave == [doc |-> BlankBan, status |-> "none"]

StoreInit ==
    /\ stored = {}
    /\ saved = NoSave

\* -------------------------------------------- AuthenticationBlacklist: state
\* The four matcher fields.
MatchFields == {"scheme", "protocol", "domain", "port"}

\* The values an endpoint can have in each field.
FieldValues ==
    [scheme |-> {"http", "https"}, protocol |-> {"tcp"},
     domain |-> {"example.com", "other.com"}, port |-> {"443"}]

Endpoints == [scheme : FieldValues.scheme, protocol : FieldValues.protocol,
              domain : FieldValues.domain, port : FieldValues.port]

\* A StringField that was not given a value is None.
Entries == [scheme : {"https", None},
            protocol : FieldValues.protocol \cup {None},
            domain : FieldValues.domain \cup {None},
            port : FieldValues.port \cup {None}]

NoCheck == [endpoint |-> [scheme |-> None, protocol |-> None,
                          domain |-> None, port |-> None],
            against |-> {}, verdict |-> "none"]

BlInit ==
    /\ blacklist = {}
    /\ checked = NoCheck

Init == InitN(MaxChildren) /\ AuthInit /\ StoreInit /\ BlInit

InitConc == InitN(MaxConcChildren) /\ AuthInit /\ StoreInit /\ BlInit

\* -------------------------------------------------------------- actions
\* A caller invokes obj.enable(user) or obj.disable(user).
Invoke(t, op, obj, max) ==
    /\ call[t].pc = "idle"
    /\ calls < max
    /\ obj \in Objects
    /\ call' = [call EXCEPT ![t] =
                  [pc |-> "check", op |-> op, target |-> obj, cur |-> obj,
                   k |-> 0, outcome |-> "none", pre |-> Flags,
                   logStart |-> Len(log), during |-> Running]]
    /\ calls' = calls + 1
    /\ UNCHANGED <<ban_enabled, characters, IPs, log, embeddedId, changes, prev>>
    /\ UNCHANGED <<attrs, other>>

\* "if not self._enabled:" / "if self._enabled:" of the method running on cur.
Check(t) ==
    /\ call[t].pc = "check"
    /\ call' = [call EXCEPT ![t] =
                  IF Guard(call[t].op, Flag(call[t].cur))
                    THEN [call[t] EXCEPT !.pc = "log"]
                    ELSE Continue(call[t])]
    /\ UNCHANGED <<ban_enabled, characters, IPs, log, embeddedId, calls, changes, prev>>
    /\ UNCHANGED <<attrs, other>>

\* "log.info(<template>.format((user.username, self. ...)))": the argument
\* tuple is evaluated first; an AttributeError leaves the method, and the
\* Ban method that called it, at once.
Log(t) ==
    /\ call[t].pc = "log"
    /\ LET c == call[t]
           cls == ClassOf(c.cur)
       IN IF LogRaises(cls, c.op)
            THEN /\ call' = [call EXCEPT ![t] =
                               [c EXCEPT !.pc = "done",
                                         !.outcome = "AttributeError"]]
                 /\ UNCHANGED log
            ELSE /\ log' = Append(log,
                               [msg |-> Format(Template(cls, c.op),
                                               LogArgs(cls, c.op)),
                                by |-> c.cur])
                 /\ call' = [call EXCEPT ![t] = [c EXCEPT !.pc = "write"]]
    /\ UNCHANGED <<ban_enabled, characters, IPs, embeddedId, calls, changes, prev>>
    /\ UNCHANGED <<attrs, other>>

Write_EveryBan(t) ==
    /\ call[t].pc = "write"
    /\ LET c == call[t]
           v == NewValue(c.op)
       IN /\ ban_enabled' = IF c.cur[1] = "Ban" THEN v ELSE ban_enabled
          /\ characters' = IF c.cur[1] = "characters"
                             THEN [characters EXCEPT ![c.cur[2]] = v]
                             ELSE characters
          /\ IPs' = IF c.cur[1] = "IPs"
                      THEN [IPs EXCEPT ![c.cur[2]] = v]
                      ELSE IPs
          /\ other' = IF c.cur[1] = "Ban" THEN [other EXCEPT !.ban = v] ELSE other
          /\ changes' = IF Flag(c.cur) # v
                          THEN [changes EXCEPT ![c.cur] = @ + 1]
                          ELSE changes
          /\ call' = [call EXCEPT ![t] = Continue(c)]
    /\ UNCHANGED <<log, embeddedId, calls, prev, attrs>>

\* "self._enabled = True" / "self._enabled = False".
Write(t) ==
    /\ call[t].pc = "write"
    /\ LET c == call[t]
           v == NewValue(c.op)
       IN /\ ban_enabled' = IF c.cur[1] = "Ban" THEN v ELSE ban_enabled
          /\ characters' = IF c.cur[1] = "characters"
                             THEN [characters EXCEPT ![c.cur[2]] = v]
                             ELSE characters
          /\ IPs' = IF c.cur[1] = "IPs"
                      THEN [IPs EXCEPT ![c.cur[2]] = v]
                      ELSE IPs
          /\ changes' = IF Flag(c.cur) # v
                          THEN [changes EXCEPT ![c.cur] = @ + 1]
                          ELSE changes
          /\ call' = [call EXCEPT ![t] = Continue(c)]
    /\ UNCHANGED <<log, embeddedId, calls, prev, attrs, other>>

\* The call is over (normally or with the exception) and the caller goes on.
Return(t) ==
    /\ call[t].pc = "done"
    /\ prev' = [op |-> call[t].op, target |-> call[t].target]
    /\ call' = [call EXCEPT ![t] = Idle]
    /\ UNCHANGED <<ban_enabled, characters, IPs, log, embeddedId, calls, changes>>
    /\ UNCHANGED <<attrs, other>>

Step(t, max) ==
    \/ \E op \in {"enable", "disable"} : \E obj \in Objects :
          Invoke(t, op, obj, max)
    \/ Check(t)
    \/ Log(t)
    \/ Write(t)
    \/ Return(t)

\* One request at a time.
Next == Step(1, MaxCalls) /\ UNCHANGED <<authVars, storeVars, blVars>>

Spec == Init /\ [][Next]_vars

\* Requests running concurrently on the same Ban object.
NextConc ==
    /\ \E t \in Threads : Step(t, MaxConcCalls)
    /\ UNCHANGED <<authVars, storeVars, blVars>>

SpecConc == InitConc /\ [][NextConc]_vars

\* ----------------------------------------- AuthenticationRequest: actions
\* AuthenticationRequest(application=..., success=..., failure=...).save():
\* user and grant are unset, expires takes its default.
CreateRequest(app) ==
    /\ Len(issued) < MaxRequests
    /\ LET id == Len(issued) + 1
           doc == [application |-> app, user |-> "unset", grant |-> "unset",
                   success |-> "success-url", failure |-> "failure-url",
                   expires |-> DefaultExpires(now)]
       IN /\ requests' = [i \in DOMAIN requests \cup {id} |->
                            IF i = id THEN doc ELSE requests[i]]
          /\ issued' = Append(issued, doc.expires)
          /\ createdAt' = Append(createdAt, now)
    /\ UNCHANGED <<now, ticks, found, consumed, updated>>

\* Time passes.
Tick(d) ==
    /\ ticks < MaxTicks
    /\ now' = now + d
    /\ ticks' = ticks + 1
    /\ UNCHANGED <<requests, issued, found, createdAt, consumed, updated>>

Purge_NoIndex(id) ==
    /\ FALSE
    /\ UNCHANGED authVars

\* The store's background task for the index on expires with
\* expireAfterSeconds=0 removes a document whose expires has passed.
Purge(id) ==
    /\ id \in DOMAIN requests
    /\ requests[id].expires < now
    /\ requests' = [i \in DOMAIN requests \ {id} |-> requests[i]]
    /\ UNCHANGED <<now, ticks, issued, found, createdAt, consumed, updated>>

Valid_NoExpiryTest(id) == id \in DOMAIN requests

\* A document is valid strictly before its expires and absent at or after it.
Valid(id) == id \in DOMAIN requests /\ now < requests[id].expires

\* Lookup of a request by its id.
Lookup(id) ==
    /\ id \in 1..Len(issued)
    /\ found' = [id |-> id, at |-> now,
                 status |-> IF Valid(id) THEN "found" ELSE "not-found",
                 expires |-> issued[id]]
    /\ UNCHANGED <<now, ticks, requests, issued, createdAt, consumed, updated>>

Attach_NoExpiryTest(id, field, value) ==
    /\ id \in 1..Len(issued)
    /\ field = "grant" => (id \in DOMAIN requests /\ requests[id].user # "unset")
    /\ updated' = [id |-> id, at |-> now,
                   status |-> IF id \in DOMAIN requests
                                THEN "updated" ELSE "not-found",
                   expires |-> issued[id]]
    /\ requests' = IF id \in DOMAIN requests
                     THEN [requests EXCEPT ![id][field] = value]
                     ELSE requests
    /\ UNCHANGED <<now, ticks, issued, found, createdAt, consumed>>

\* The handshake attaches the user, and after it the grant, to a request:
\* one conditional update, refused as not-found when the request is not
\* valid any more, and then writing nothing.
Attach(id, field, value) ==
    /\ id \in 1..Len(issued)
    /\ field = "grant" => (id \in DOMAIN requests /\ requests[id].user # "unset")
    /\ updated' = [id |-> id, at |-> now,
                   status |-> IF Valid(id) THEN "updated" ELSE "not-found",
                   expires |-> issued[id]]
    /\ requests' = IF Valid(id)
                     THEN [requests EXCEPT ![id][field] = value]
                     ELSE requests
    /\ UNCHANGED <<now, ticks, issued, found, createdAt, consumed>>

\* The handshake ends and deletes its request.
Consume(id) ==
    /\ id \in DOMAIN requests
    /\ requests' = [i \in DOMAIN requests \ {id} |-> requests[i]]
    /\ consumed' = consumed \cup {id}
    /\ UNCHANGED <<now, ticks, issued, found, createdAt, updated>>

NextAuth ==
    /\ \/ \E app \in Applications : CreateRequest(app)
       \/ \E d \in TickSteps : Tick(d)
       \/ \E id \in 1..MaxRequests : Purge(id)
       \/ \E id \in 1..MaxRequests : Lookup(id)
       \/ \E id \in 1..MaxRequests : Attach(id, "user", "user")
       \/ \E id \in 1..MaxRequests : Attach(id, "grant", "grant")
       \/ \E id \in 1..MaxRequests : Consume(id)
    /\ UNCHANGED <<banVars, storeVars, blVars>>

\* A Ban() with the defaults of its fields: no entries, _enabled True.
BanDefault ==
    /\ ban_enabled = TRUE
    /\ characters = << >>
    /\ IPs = << >>
    /\ log = << >>
    /\ embeddedId \in BOOLEAN
    /\ call = [t \in Threads |-> Idle]
    /\ calls = 0
    /\ changes = [o \in {BanObj} |-> 0]
    /\ prev = [op |-> "none", target |-> BanObj]
    /\ attrs = EntryFields(0, 0)
    /\ other = OtherBan

InitAuth == BanDefault /\ AuthInit /\ StoreInit /\ BlInit

SpecAuth == InitAuth /\ [][NextAuth]_vars

\* The store runs its background task again and again: no document that
\* may be purged is left waiting for ever.
PurgeStep(id) == Purge(id) /\ UNCHANGED <<banVars, storeVars, blVars>>

\* No entry is toggled here, so one value of embeddedId is enough.
InitAuthFair == InitAuth /\ ~embeddedId

SpecAuthFair ==
    /\ InitAuthFair
    /\ [][NextAuth]_vars
    /\ \A id \in 1..MaxRequests : WF_vars(PurgeStep(id))

\* ---------------------------------------- aggregate-level use of a new Ban
\* A Ban as it is created: every _enabled has its default, True.
InitFresh ==
    /\ Init
    /\ ban_enabled
    /\ \A i \in 1..Len(characters) : characters[i]
    /\ \A j \in 1..Len(IPs) : IPs[j]

\* Only Ban.enable and Ban.disable are called, one call at a time.
NextFresh ==
    /\ \/ \E op \in {"enable", "disable"} : Invoke(1, op, BanObj, MaxCalls)
       \/ Check(1)
       \/ Log(1)
       \/ Write(1)
       \/ Return(1)
    /\ UNCHANGED <<authVars, storeVars, blVars>>

SpecFresh == InitFresh /\ [][NextFresh]_vars

\* ---------------------------------------------------- Ban.save(): actions
Required_HostOptional(cls) ==
    CASE cls = "Ban" -> {"creator", "charCreator", "reason"}
      [] cls = "CharacterBan" -> {"character"}
      [] cls = "IPBan" -> {}

\* The fields declared with required=True.
Required(cls) ==
    CASE cls = "Ban" -> {"creator", "charCreator", "reason"}
      [] cls = "CharacterBan" -> {"character"}
      [] cls = "IPBan" -> {"host"}

CharacterEntries == [character : {None, "C2"}, reason : {"direct"}]

IPEntries == [host : {None, "10.0.0.1"}, reason : {"direct"}]

\* The Ban objects a caller may build; the constructor accepts all of them.
BanDocs ==
    [creator : {None, "U1"}, charCreator : {None, "C1"},
     reason : {None, "abuse"},
     characters : UNION {[1..n -> CharacterEntries] : n \in 0..MaxEntries},
     IPs : UNION {[1..n -> IPEntries] : n \in 0..MaxEntries}]

\* Validation of one document: a required field must not be None.
Validates(cls, doc) == \A f \in Required(cls) : doc[f] # None

\* Validation of a Ban descends into the embedded documents of its lists.
ValidBan(doc) ==
    /\ Validates("Ban", doc)
    /\ \A i \in 1..Len(doc.characters) : Validates("CharacterBan", doc.characters[i])
    /\ \A j \in 1..Len(doc.IPs) : Validates("IPBan", doc.IPs[j])

\* doc.save(): validates, and writes the document when it is valid.
Save(doc) ==
    IF ValidBan(doc)
         THEN /\ Cardinality(stored) < MaxStored
              /\ stored' = stored \cup {doc}
              /\ saved' = [doc |-> doc, status |-> "ok"]
         ELSE /\ stored' = stored
              /\ saved' = [doc |-> doc, status |-> "ValidationError"]

NextCreate ==
    /\ \E doc \in BanDocs : Save(doc)
    /\ UNCHANGED <<banVars, authVars, blVars>>

\* No entry is toggled in what follows, so one value of embeddedId is enough.
InitCreate == BanDefault /\ ~embeddedId /\ AuthInit /\ StoreInit /\ BlInit

SpecCreate == InitCreate /\ [][NextCreate]_vars

\* ------------------------------------- AuthenticationBlacklist: actions
Matches_Exact(entry, endpoint) ==
    \A f \in MatchFields : entry[f] = endpoint[f]

\* An entry matches an endpoint when each field it has a value for equals
\* the endpoint's; a field without a value matches anything.
Matches(entry, endpoint) ==
    \A f \in MatchFields : entry[f] = None \/ entry[f] = endpoint[f]

\* An administrator adds an entry.
AddEntry(entry) ==
    /\ Cardinality(blacklist) < MaxBlacklist
    /\ blacklist' = blacklist \cup {entry}
    /\ UNCHANGED checked

\* An administrator deletes an entry.
DeleteEntry(entry) ==
    /\ entry \in blacklist
    /\ blacklist' = blacklist \ {entry}
    /\ UNCHANGED checked

\* The connection handler tests an endpoint: any matching entry blocks it.
CheckEndpoint(endpoint) ==
    /\ checked' = [endpoint |-> endpoint, against |-> blacklist,
                   verdict |-> IF \E e \in blacklist : Matches(e, endpoint)
                                 THEN "blocked" ELSE "allowed"]
    /\ UNCHANGED blacklist

NextBlacklist ==
    /\ \/ \E entry \in Entries : AddEntry(entry)
       \/ \E entry \in Entries : DeleteEntry(entry)
       \/ \E endpoint \in Endpoints : CheckEndpoint(endpoint)
    /\ UNCHANGED <<banVars, authVars, storeVars>>

SpecBlacklist == InitCreate /\ [][NextBlacklist]_vars

\* ------------------------------------------------- vocabulary of the claims
Done(t) == call[t].pc = "done"

AllChildren(v) == \A k \in 1..Len(Cascade) : Flag(Cascade[k]) = v

\* The value a flag had when the call c was invoked.
PreFlag(c, obj) ==
    CASE obj[1] = "Ban" -> c.pre.ban
      [] obj[1] = "characters" -> c.pre.characters[obj[2]]
      [] obj[1] = "IPs" -> c.pre.IPs[obj[2]]

\* The log records written since the call c was invoked.
Emitted(c) == SubSeq(log, c.logStart + 1, Len(log))

CountBy(events, obj) ==
    Cardinality({i \in 1..Len(events) : events[i].by = obj})

\* The call c found its target, and for a Ban all its children, already
\* holding the value the operation assigns.
InTargetState(c) ==
    /\ PreFlag(c, c.target) = NewValue(c.op)
    /\ c.target = BanObj =>
          \A k \in 1..Len(Cascade) : PreFlag(c, Cascade[k]) = NewValue(c.op)

\* Two calls of which one was invoked while the other was running.
Overlapped(t, u) == t \in call[u].during \/ u \in call[t].during

\* ------------------------------------------------------------------ claims

\* C1: when a disable call on the Ban has finished, the Ban's flag is false
\* and every character entry and every IP entry has its flag false,
\* whatever the flags were before.
C1_DisableCascade ==
    \A t \in Threads :
        (Done(t) /\ call[t].op = "disable" /\ call[t].target = BanObj)
            => (~ban_enabled /\ AllChildren(FALSE))

\* C2: when an enable call on the Ban has finished, the Ban's flag is true
\* and every character entry and every IP entry has its flag true,
\* whether or not the Ban's own flag changed.
C2_EnableCascade ==
    \A t \in Threads :
        (Done(t) /\ call[t].op = "enable" /\ call[t].target = BanObj)
            => (ban_enabled /\ AllChildren(TRUE))

\* C3: disable on a Ban whose flag and K children flags are all true leaves
\* all of them false and writes exactly 1 + K log records; a second disable
\* right after it changes no flag and writes no log record.
C3_FullToggleAudit ==
    \A t \in Threads :
        LET c == call[t] IN
        (Done(t) /\ c.op = "disable" /\ c.target = BanObj) =>
            /\ (c.pre.ban /\ \A k \in 1..Len(Cascade) : PreFlag(c, Cascade[k]))
                  => /\ ~ban_enabled
                     /\ AllChildren(FALSE)
                     /\ Len(Emitted(c)) = 1 + Len(Cascade)
            /\ (prev.op = "disable" /\ prev.target = BanObj)
                  => /\ Flags = c.pre
                     /\ Len(Emitted(c)) = 0

\* C4: a toggle invoked on an entry or on the Ban that is already in the
\* target state (for the Ban: with all its children) changes no flag and
\* writes no log record; and a toggle that directly follows the same toggle
\* on the same object changes no flag and writes no log record.
C4_Idempotent ==
    \A t \in Threads :
        LET c == call[t] IN
        Done(t) =>
            /\ InTargetState(c) =>
                  (Flags = c.pre /\ Len(Emitted(c)) = 0 /\ c.outcome = "ok")
            /\ (prev.op = c.op /\ prev.target = c.target) =>
                  (Flags = c.pre /\ Len(Emitted(c)) = 0)

\* C4 witness: a finished toggle of a Ban with both kinds of entries that
\* was already in the target state, directly after the same toggle.
C4_Witness ==
    \E t \in Threads :
        /\ Done(t)
        /\ call[t].target = BanObj
        /\ InTargetState(call[t])
        /\ Len(characters) >= 1 /\ Len(IPs) >= 1
        /\ prev.op = call[t].op /\ prev.target = BanObj

\* C5: a toggle of a Ban whose own flag already has the target value writes
\* no Ban-level log record and leaves the Ban's flag alone, writes exactly
\* one log record for each child that had the other value and none for the
\* others, and leaves every child with the target value.
C5_Resync ==
    \A t \in Threads :
        LET c == call[t] IN
        (Done(t) /\ c.target = BanObj /\ c.pre.ban = NewValue(c.op)) =>
            /\ CountBy(Emitted(c), BanObj) = 0
            /\ ban_enabled = c.pre.ban
            /\ \A k \in 1..Len(Cascade) :
                  CountBy(Emitted(c), Cascade[k]) =
                      IF PreFlag(c, Cascade[k]) # NewValue(c.op) THEN 1 ELSE 0
            /\ AllChildren(NewValue(c.op))

\* C6: an enable or disable call on the Ban never ends with an exception
\* (nothing in the model is a storage failure).
C6_NoFailure ==
    \A t \in Threads :
        (Done(t) /\ call[t].target = BanObj) => call[t].outcome = "ok"

\* C7: when two overlapping disable calls on the Ban have both finished,
\* the Ban's flag and every child's flag are false.
C7_ConcurrentDisable ==
    \A t, u \in Threads :
        (/\ t # u
         /\ Done(t) /\ Done(u)
         /\ Overlapped(t, u)
         /\ call[t].op = "disable" /\ call[u].op = "disable"
         /\ call[t].target = BanObj /\ call[u].target = BanObj)
            => (~ban_enabled /\ AllChildren(FALSE))

\* C8: when an enable and a disable call on the Ban that overlapped have
\* both finished, either the Ban and all children are enabled or the Ban
\* and all children are disabled.
C8_Linearizable ==
    \A t, u \in Threads :
        (/\ t # u
         /\ Done(t) /\ Done(u)
         /\ Overlapped(t, u)
         /\ call[t].op = "enable" /\ call[u].op = "disable"
         /\ call[t].target = BanObj /\ call[u].target = BanObj)
            => \/ (ban_enabled /\ AllChildren(TRUE))
               \/ (~ban_enabled /\ AllChildren(FALSE))

\* C9: there are never more log records about a flag than changes written
\* to that flag, i.e. no log record of a transition exists while the flag
\* still holds its old value.
C9_NoAuditBeforeWrite ==
    \A obj \in Objects : CountBy(log, obj) <= changes[obj]

\* C10: a lookup of a request made at a time at or after its expires
\* returns not-found, also while the document is still in the collection.
C10_ExpiredNotFound ==
    (found.status # "none" /\ found.at >= found.expires)
        => found.status = "not-found"

\* C10 witness: a lookup made exactly at expires, answered not-found while
\* the background task has not removed the document.
C10_Witness ==
    /\ found.status = "not-found"
    /\ found.at = found.expires
    /\ found.id \in DOMAIN requests
    /\ now = found.at

\* C11: an attempt to attach user or grant made at or after expires is
\* answered not-found, and no step writes a document that is dead after
\* the step or puts one back into the collection.
C11_NoUpdateAfterExpiry ==
    [][/\ (updated'.status # "none" /\ updated'.at >= updated'.expires)
            => updated'.status = "not-found"
       /\ \A id \in DOMAIN requests' :
            now' >= issued'[id]
                => (id \in DOMAIN requests /\ requests'[id] = requests[id])
      ]_vars

\* C11 witness: an attach refused as not-found exactly at expires, while
\* the document is still in the collection.
C11_Witness ==
    /\ updated.status = "not-found"
    /\ updated.at = updated.expires
    /\ updated.id \in DOMAIN requests
    /\ requests[updated.id].user = "unset"

\* C12: a document created at T has expires = T + 10 minutes; a lookup made
\* strictly before expires finds the document unless it was consumed; and
\* a document that left the collection without being consumed had reached
\* its expires.
C12_LifetimeLowerBound ==
    /\ \A id \in 1..Len(issued) : issued[id] = createdAt[id] + 10 * 60
    /\ (found.status # "none" /\ found.at < found.expires
            /\ found.id \notin consumed)
          => found.status = "found"
    /\ \A id \in 1..Len(issued) :
          (id \notin DOMAIN requests /\ id \notin consumed) => issued[id] <= now

\* C12 witness: a successful lookup 9 minutes 59 seconds after creation.
C12_Witness ==
    /\ found.status = "found"
    /\ found.at = createdAt[found.id] + 9 * 60 + 59
    /\ found.id \notin consumed

\* C15: a document whose expires has passed and that is still in the
\* collection is eventually out of the collection, given that the
\* background task keeps running.
C15_EventualPurge ==
    \A id \in 1..MaxRequests :
        (id \in DOMAIN requests /\ requests[id].expires < now)
            ~> (id \notin DOMAIN requests)

\* C15 witness: a document removed by the background task, never consumed.
C15_Witness ==
    \E id \in 1..Len(issued) :
        /\ id \notin DOMAIN requests
        /\ id \notin consumed
        /\ issued[id] < now

\* C13: a Ban without creator, charCreator or reason, or holding an IP
\* entry without host or a character entry without character, is refused by
\* save() with a validation error, the collection is as it was before, and
\* no such document is ever in the collection.
C13_CreationValidation ==
    [][LET lacks(d) ==
             \/ d.creator = None
             \/ d.charCreator = None
             \/ d.reason = None
             \/ \E i \in 1..Len(d.characters) : d.characters[i].character = None
             \/ \E j \in 1..Len(d.IPs) : d.IPs[j].host = None
       IN /\ (saved' # saved /\ lacks(saved'.doc))
                => (saved'.status = "ValidationError" /\ stored' = stored)
          /\ \A d \in stored' : ~lacks(d)
      ]_vars

\* C13 witness: a Ban complete but for the host of its IP entry was refused
\* while another Ban is in the collection.
C13_Witness ==
    /\ saved.status = "ValidationError"
    /\ saved.doc.creator # None /\ saved.doc.charCreator # None
    /\ saved.doc.reason # None
    /\ Len(saved.doc.IPs) = 1 /\ saved.doc.IPs[1].host = None
    /\ \A i \in 1..Len(saved.doc.characters) :
          saved.doc.characters[i].character # None
    /\ stored # {}

C16_FlagsInSync ==
    \A t \in Threads :
        (Done(t) /\ call[t].target = BanObj) => AllChildren(ban_enabled)

\* C17: a Ban-level call that ended with an error has left the Ban's flag
\* and every entry's flag as they were when it was invoked.
C17_AllOrNothing ==
    \A t \in Threads :
        (Done(t) /\ call[t].target = BanObj /\ call[t].outcome # "ok")
            => Flags = call[t].pre

\* C18: while no call is between its test and its assignment, each flag has
\* exactly as many log records as it has had changes of value.
C18_OneAuditPerTransition ==
    Running = {} => \A obj \in Objects : CountBy(log, obj) = changes[obj]

\* C19: no step of an enable/disable call changes the other fields of the
\* Ban or of its entries, the length or order of its lists, or any flag of
\* another Ban.
C19_Frame ==
    [][/\ attrs' = attrs
       /\ other' = other
       /\ Len(characters') = Len(characters)
       /\ Len(IPs') = Len(IPs)
      ]_vars

\* C19 witness: a finished Ban-level call that changed the Ban's own flag
\* and a flag of an entry of a Ban with both kinds of entries.
C19_Witness ==
    \E t \in Threads :
        /\ Done(t)
        /\ call[t].target = BanObj
        /\ ban_enabled # call[t].pre.ban
        /\ IPs # call[t].pre.IPs
        /\ Len(characters) >= 1 /\ Len(IPs) >= 1

====
